---- MODULE Spec2Model ----
(***************************************************************************)
(* Model of scripts/log_analysis.py: three independent passes over a log   *)
(* file (requests per IP, most frequent endpoint, suspicious activity),    *)
(* the console rendering and the CSV export.                               *)
(*                                                                         *)
(* Text is modelled as it is in the program: a string is a sequence of     *)
(* one-character strings, so that splitting, substring search, the         *)
(* request-line pattern and CSV quoting are computed character by          *)
(* character.                                                              *)
(***************************************************************************)
EXTENDS Integers, Sequences, FiniteSets, TLC

VARIABLES
    log_file,               \* content of the input file: its lines, each with its "\n"
                            \* (the last line may lack it)
    threshold,              \* args.threshold
    pc,                     \* the function __main__ is executing
    handle,                 \* "closed" | "open": the read handle of the running pass
    pos,                    \* number of lines the running pass has consumed
    counter,                \* the running pass's Counter, in insertion order
    ip_requests,            \* result of count_requests_per_ip
    most_frequent,          \* result of most_frequent_endpoint
    suspicious_activities,  \* result of detect_suspicious_activity
    console,                \* what display_results printed
    failed,                 \* functions whose file-level except handler ran
    csvfile,                \* content of the export file, character by character
    run,                    \* 1 or 2: which invocation of the script this is
    first                   \* what the first invocation produced (kept for comparison)

vars == <<log_file, threshold, pc, handle, pos, counter, ip_requests, most_frequent,
          suspicious_activities, console, failed, csvfile, run, first>>

----------------------------------------------------------------------------
(* Bounds of the model *)

(* lines of the input file *)
MaxLines == 3
(* largest args.threshold *)
MaxThreshold == 1
(* lines of the input file in the runs where a write can cut the export short *)
MaxFaultLines == 2

----------------------------------------------------------------------------
(* Text constants of the program *)

Str401 == <<"4", "0", "1">>
StrInvalidCredentials ==
    <<"I", "n", "v", "a", "l", "i", "d", " ", "c", "r", "e", "d", "e", "n", "t", "i", "a", "l", "s">>
StrNA == <<"N", "/", "A">>
StrHTTP == <<" ", "H", "T", "T", "P">>
Methods == << <<"G", "E", "T">>, <<"P", "O", "S", "T">>, <<"P", "U", "T">>,
              <<"D", "E", "L", "E", "T", "E">> >>
Newline == <<"\n">>

(* str.split() with no argument splits on runs of the characters for which   *)
(* str.isspace() holds: U+0009..U+000D, U+001C..U+001F, U+0020, U+0085,       *)
(* U+00A0, U+1680, and U+2000..U+200A, U+2028, U+2029, U+202F, U+205F,        *)
(* U+3000. A TLA+ string cannot hold a character from U+2000 on, so no line   *)
(* of the model contains one of the last group; the others are all here (the  *)
(* last eight strings hold U+000B, U+001C..U+001F, U+0085, U+00A0, U+1680).   *)
Whitespace == {" ", "\t", "\n", "\r", "\f",
               "", "", "", "", "", "", " ", " "}

----------------------------------------------------------------------------
(* The input lines the model draws from *)

LinePost   == <<"a", " ", "\"", "P", "O", "S", "T", " ", "/", "p", ",", "q", " ", "H", "T", "T", "P">>
LineFail   == <<"a", "", "G", "E", "T", " ", "/", "h", " ", "H", "T", "T", "P", " ", "4", "0", "1">>
LineBlank  == <<" ">>
LineQuote  == <<"\"", "G", "E", "T", " ", "\"", "x", " ", "H", "T", "T", "P", " ">>
                 \o StrInvalidCredentials

(* LinePost:  a "POST /p,q HTTP       a request whose endpoint holds a comma  *)
(* LineFail:  a GET /h HTTP 401       a failed login, the request not quoted, *)
(*                                    a vertical tab (U+000B) after the "a"   *)
(* LineBlank: one space               a line without a token                  *)
(* LineQuote: "GET "x HTTP Invalid credentials                                *)
(*            a failed login whose identifier and endpoint hold a quote       *)
LinePool == {LinePost, LineFail, LineBlank, LineQuote}

(* a line of the pool as the file holds it when a newline ends it *)
Terminated(l) == l \o Newline

RECURSIVE SeqsUpTo(_, _)
SeqsUpTo(S, n) ==
    IF n = 0 THEN {<<>>}
    ELSE LET shorter == SeqsUpTo(S, n - 1)
         IN  shorter \cup {Append(s, x) : s \in shorter, x \in S}

(* the files of up to n lines: every line ends with a newline, except that   *)
(* the last line of a file may lack it                                       *)
Files(n) ==
    IF n = 0 THEN {<<>>}
    ELSE SeqsUpTo({Terminated(l) : l \in LinePool}, n)
         \cup {Append(f, l) : f \in SeqsUpTo({Terminated(l) : l \in LinePool}, n - 1),
                              l \in LinePool}

Thresholds == (0 - 1)..MaxThreshold

(* the export file before the run: absent or empty, or left by something else *)
OldExport == <<"O", "L", "D", ",", "1", "\r", "\n">>
ExportsBefore == {<<>>, OldExport}

----------------------------------------------------------------------------
(* String operations *)

(* sub in s *)
Contains(s, sub) ==
    \E i \in 1..(Len(s) - Len(sub) + 1) : SubSeq(s, i, i + Len(sub) - 1) = sub

StartsWithAt(s, i, p) ==
    /\ i + Len(p) - 1 <= Len(s)
    /\ SubSeq(s, i, i + Len(p) - 1) = p

RECURSIVE SplitRec(_, _, _)
SplitRec(s, cur, acc) ==
    IF s = <<>> THEN (IF cur = <<>> THEN acc ELSE Append(acc, cur))
    ELSE IF Head(s) \in Whitespace
         THEN SplitRec(Tail(s), <<>>, IF cur = <<>> THEN acc ELSE Append(acc, cur))
         ELSE SplitRec(Tail(s), Append(cur, Head(s)), acc)

(* line.split(): the whitespace-delimited tokens of the line *)
split(s) == SplitRec(s, <<>>, <<>>)

Min(S) == CHOOSE x \in S : \A y \in S : x <= y

(* re.search(r'\"(?:GET|POST|PUT|DELETE) (.*?) HTTP', line)                    *)

(* the lazy group (.*?) from position j, tried at length k: the shortest run  *)
(* of characters other than newline that is followed by " HTTP"; -1 if none   *)
RECURSIVE LazyGroup(_, _, _)
LazyGroup(line, j, k) ==
    IF StartsWithAt(line, j + k, StrHTTP) THEN k
    ELSE IF j + k > Len(line) \/ line[j + k] = "\n" THEN 0 - 1
    ELSE LazyGroup(line, j, k + 1)

(* the methods of the alternation that match after the quote at i *)
MethodsAt(line, i) ==
    {m \in 1..Len(Methods) : StartsWithAt(line, i + 1, Methods[m] \o <<" ">>)}

(* the match that starts at i, if there is one *)
MatchAt(line, i) ==
    IF line[i] /= "\"" \/ MethodsAt(line, i) = {}
    THEN [matched |-> FALSE, group1 |-> <<>>]
    ELSE LET m == Min(MethodsAt(line, i))
             j == i + Len(Methods[m]) + 2
             k == LazyGroup(line, j, 0)
         IN  IF k < 0 THEN [matched |-> FALSE, group1 |-> <<>>]
             ELSE [matched |-> TRUE, group1 |-> SubSeq(line, j, j + k - 1)]

(* the search tries every start position from the left *)
RECURSIVE SearchFrom(_, _)
SearchFrom(line, i) ==
    IF i > Len(line) THEN [matched |-> FALSE, group1 |-> <<>>]
    ELSE IF line[i] = "\"" /\ MatchAt(line, i).matched THEN MatchAt(line, i)
    ELSE SearchFrom(line, i + 1)

endpoint_match(line) == SearchFrom(line, 1)

(* '401' in line or 'Invalid credentials' in line *)
IsFailedLogin(line) == Contains(line, Str401) \/ Contains(line, StrInvalidCredentials)

----------------------------------------------------------------------------
(* collections.Counter: pairs <<key, count>> in insertion order *)

Keys(c) == {c[i][1] : i \in 1..Len(c)}

CounterInc_Assign(c, key) ==
    IF key \in Keys(c)
    THEN [i \in 1..Len(c) |-> IF c[i][1] = key THEN <<key, 1>> ELSE c[i]]
    ELSE Append(c, <<key, 1>>)

(* counter[key] += 1 *)
CounterInc(c, key) ==
    IF key \in Keys(c)
    THEN [i \in 1..Len(c) |-> IF c[i][1] = key THEN <<key, c[i][2] + 1>> ELSE c[i]]
    ELSE Append(c, <<key, 1>>)

(* insert x after every element whose count is at least x's *)
RECURSIVE InsertDesc(_, _)
InsertDesc(sorted, x) ==
    IF sorted = <<>> THEN <<x>>
    ELSE IF Head(sorted)[2] >= x[2]
         THEN <<Head(sorted)>> \o InsertDesc(Tail(sorted), x)
         ELSE <<x>> \o sorted

RECURSIVE SortDesc(_, _)
SortDesc(items, acc) ==
    IF items = <<>> THEN acc
    ELSE SortDesc(Tail(items), InsertDesc(acc, Head(items)))

Reverse(s) == [i \in 1..Len(s) |-> s[Len(s) + 1 - i]]

most_common_TiesReversed(c) == SortDesc(Reverse(c), <<>>)

(* Counter.most_common(): sorted(items, key=count, reverse=True), a stable sort *)
most_common(c) == SortDesc(c, <<>>)

most_common_1_Last(c) ==
    LET best == Min({i \in 1..Len(c) : \A j \in 1..Len(c) :
                        c[j][2] < c[i][2] \/ (c[j][2] = c[i][2] /\ j <= i)})
    IN  c[best]

(* Counter.most_common(1)[0]: max(items, key=count), the first of the maxima *)
most_common_1(c) ==
    LET best == Min({i \in 1..Len(c) : \A j \in 1..Len(c) : c[j][2] <= c[i][2]})
    IN  c[best]

SuspiciousFilter_AtLeast(c, t) ==
    LET Over(p) == p[2] >= t IN SelectSeq(c, Over)

(* [(ip, count) for ip, count in failed_login_counter.items() if count > threshold] *)
SuspiciousFilter(c, t) ==
    LET Over(p) == p[2] > t IN SelectSeq(c, Over)

----------------------------------------------------------------------------
(* csv.writer with the default dialect: delimiter ',', quotechar '"',        *)
(* QUOTE_MINIMAL, doublequote, lineterminator '\r\n'                          *)

StrRequestsPerIP == <<"R", "e", "q", "u", "e", "s", "t", "s", " ", "p", "e", "r", " ", "I", "P">>
StrIPAddress == <<"I", "P", " ", "A", "d", "d", "r", "e", "s", "s">>
StrRequestCount == <<"R", "e", "q", "u", "e", "s", "t", " ", "C", "o", "u", "n", "t">>
StrMostAccessedEndpoint ==
    <<"M", "o", "s", "t", " ", "A", "c", "c", "e", "s", "s", "e", "d", " ", "E", "n", "d", "p", "o", "i", "n", "t">>
StrEndpoint == <<"E", "n", "d", "p", "o", "i", "n", "t">>
StrAccessCount == <<"A", "c", "c", "e", "s", "s", " ", "C", "o", "u", "n", "t">>
StrSuspiciousActivity ==
    <<"S", "u", "s", "p", "i", "c", "i", "o", "u", "s", " ", "A", "c", "t", "i", "v", "i", "t", "y">>
StrFailedLoginCount ==
    <<"F", "a", "i", "l", "e", "d", " ", "L", "o", "g", "i", "n", " ", "C", "o", "u", "n", "t">>
LineTerminator == <<"\r", "\n">>

Digits == <<"0", "1", "2", "3", "4", "5", "6", "7", "8", "9">>

(* str(n) of a non-negative integer *)
RECURSIVE str(_)
str(n) == IF n < 10 THEN <<Digits[n + 1]>> ELSE str(n \div 10) \o <<Digits[(n % 10) + 1]>>

RECURSIVE DoubleQuotes(_)
DoubleQuotes(f) ==
    IF f = <<>> THEN <<>>
    ELSE (IF Head(f) = "\"" THEN <<"\"", "\"">> ELSE <<Head(f)>>) \o DoubleQuotes(Tail(f))

NeedsQuote(f) == \E i \in 1..Len(f) : f[i] \in {",", "\"", "\r", "\n"}

CsvField_Unquoted(f) == f

(* one field as the writer emits it *)
CsvField(f) ==
    IF NeedsQuote(f) THEN <<"\"">> \o DoubleQuotes(f) \o <<"\"">> ELSE f

RECURSIVE JoinFields(_)
JoinFields(row) ==
    IF row = <<>> THEN <<>>
    ELSE IF Len(row) = 1 THEN CsvField(row[1])
    ELSE CsvField(row[1]) \o <<",">> \o JoinFields(Tail(row))

(* writer.writerow(row): the text appended to the file; a row holding one    *)
(* empty field is written as "" so that it is not read back as no field      *)
writerow(row) ==
    (IF row = <<<<>>>> THEN <<"\"", "\"">> ELSE JoinFields(row)) \o LineTerminator

RECURSIVE writerows(_)
writerows(rows) ==
    IF rows = <<>> THEN <<>> ELSE writerow(Head(rows)) \o writerows(Tail(rows))

(* a (key, count) tuple as the writer sees its fields: count goes through str() *)
PairRow(p) == <<p[1], str(p[2])>>
PairRows(ps) == [i \in 1..Len(ps) |-> PairRow(ps[i])]

CsvRows_NoSeparator(ip, mf, sus) ==
    << <<StrRequestsPerIP>>, <<StrIPAddress, StrRequestCount>> >> \o PairRows(ip)
    \o << <<StrMostAccessedEndpoint>>, <<StrEndpoint, StrAccessCount>>, PairRow(mf), <<>> >>
    \o << <<StrSuspiciousActivity>>, <<StrIPAddress, StrFailedLoginCount>> >> \o PairRows(sus)

(* the rows save_results_to_csv hands to the writer, in call order *)
CsvRows(ip, mf, sus) ==
    << <<StrRequestsPerIP>>, <<StrIPAddress, StrRequestCount>> >> \o PairRows(ip) \o << <<>> >>
    \o << <<StrMostAccessedEndpoint>>, <<StrEndpoint, StrAccessCount>>, PairRow(mf), <<>> >>
    \o << <<StrSuspiciousActivity>>, <<StrIPAddress, StrFailedLoginCount>> >> \o PairRows(sus)

OpenForWrite_Append(old) == old

(* open(output_file, 'w', newline=''): the file is truncated *)
OpenForWrite(old) == <<>>

----------------------------------------------------------------------------
(* The per-line bodies of the three passes *)

(* ip = line.split()[0]; ip_counter[ip] += 1; IndexError: the line is skipped *)
CountLine(c, line) ==
    LET tokens == split(line)
    IN  IF Len(tokens) = 0 THEN c ELSE CounterInc(c, tokens[1])

(* a match adds one to the captured endpoint; no match changes nothing *)
EndpointLine(c, line) ==
    LET m == endpoint_match(line)
    IN  IF m.matched THEN CounterInc(c, m.group1) ELSE c

FailedIp_LastToken(line) == split(line)[Len(split(line))]

(* ip = line.split()[0] of a failed-login line *)
FailedIp(line) == split(line)[1]

(* a failed-login line adds one to its ip; IndexError: the line is skipped *)
SuspiciousLine(c, line) ==
    IF IsFailedLogin(line)
    THEN (IF Len(split(line)) = 0 THEN c ELSE CounterInc(c, FailedIp(line)))
    ELSE c

----------------------------------------------------------------------------
(* __main__: the order of the calls *)

Passes == {"count_requests_per_ip", "most_frequent_endpoint", "detect_suspicious_activity"}

NextComponent_SaveFirst(p) ==
    CASE p = "count_requests_per_ip" -> "most_frequent_endpoint"
      [] p = "most_frequent_endpoint" -> "detect_suspicious_activity"
      [] p = "detect_suspicious_activity" -> "save_results_to_csv"
      [] p = "save_results_to_csv" -> "display_results"
      [] p = "display_results" -> "done"

NextComponent(p) ==
    CASE p = "count_requests_per_ip" -> "most_frequent_endpoint"
      [] p = "most_frequent_endpoint" -> "detect_suspicious_activity"
      [] p = "detect_suspicious_activity" -> "display_results"
      [] p = "display_results" -> "save_results_to_csv"
      [] p = "save_results_to_csv" -> "done"

DefaultResult_EmptyList(p) == <<>>

(* what a pass returns from its except handlers *)
DefaultResult(p) == IF p = "most_frequent_endpoint" THEN <<StrNA, 0>> ELSE <<>>

(* the pass p returns v to __main__, which goes on to the next call *)
Return(p, v) ==
    /\ ip_requests' = IF p = "count_requests_per_ip" THEN v ELSE ip_requests
    /\ most_frequent' = IF p = "most_frequent_endpoint" THEN v ELSE most_frequent
    /\ suspicious_activities' =
           IF p = "detect_suspicious_activity" THEN v ELSE suspicious_activities
    /\ handle' = "closed"
    /\ pos' = 0
    /\ counter' = <<>>
    /\ pc' = NextComponent(p)

(* Counter(); open(log_file, 'r') succeeds *)
OpenPass(p) ==
    /\ pc = p
    /\ handle = "closed"
    /\ handle' = "open"
    /\ pos' = 0
    /\ counter' = <<>>
    /\ UNCHANGED <<log_file, threshold, pc, ip_requests, most_frequent, suspicious_activities,
                   console, failed, csvfile, run, first>>

(* open raises FileNotFoundError: the pass returns its default *)
FileNotFound(p) ==
    /\ pc = p
    /\ handle = "closed"
    /\ failed' = failed \cup {p}
    /\ Return(p, DefaultResult(p))
    /\ UNCHANGED <<log_file, threshold, console, csvfile, run, first>>

(* any other exception, raised by open or while reading (the handle is closed *)
(* by the with block): the tally so far is dropped, the pass returns its      *)
(* default                                                                    *)
OtherException(p) ==
    /\ pc = p
    /\ failed' = failed \cup {p}
    /\ Return(p, DefaultResult(p))
    /\ UNCHANGED <<log_file, threshold, console, csvfile, run, first>>

(* the next line of the file, as iteration yields it: with its newline when  *)
(* the file has one there                                                    *)
CurrentLine == log_file[pos + 1]

(* one iteration of  for line in file  *)
ReadLine(p, c) ==
    /\ pc = p
    /\ handle = "open"
    /\ pos < Len(log_file)
    /\ counter' = c
    /\ pos' = pos + 1
    /\ UNCHANGED <<log_file, threshold, pc, handle, ip_requests, most_frequent,
                   suspicious_activities, console, failed, csvfile, run, first>>

(* the file is exhausted: the pass returns v *)
EndOfFile(p, v) ==
    /\ pc = p
    /\ handle = "open"
    /\ pos = Len(log_file)
    /\ Return(p, v)
    /\ UNCHANGED <<log_file, threshold, console, failed, csvfile, run, first>>

count_requests_per_ip_open == OpenPass("count_requests_per_ip")
count_requests_per_ip_line ==
    ReadLine("count_requests_per_ip", CountLine(counter, CurrentLine))
count_requests_per_ip_FileNotFoundError == FileNotFound("count_requests_per_ip")
count_requests_per_ip_Exception == OtherException("count_requests_per_ip")
count_requests_per_ip_return ==
    EndOfFile("count_requests_per_ip", most_common(counter))

most_frequent_endpoint_open == OpenPass("most_frequent_endpoint")
most_frequent_endpoint_line ==
    ReadLine("most_frequent_endpoint", EndpointLine(counter, CurrentLine))
most_frequent_endpoint_FileNotFoundError == FileNotFound("most_frequent_endpoint")
most_frequent_endpoint_Exception == OtherException("most_frequent_endpoint")
most_frequent_endpoint_return ==
    EndOfFile("most_frequent_endpoint",
              IF counter /= <<>> THEN most_common_1(counter) ELSE <<StrNA, 0>>)

detect_suspicious_activity_open == OpenPass("detect_suspicious_activity")
detect_suspicious_activity_line ==
    ReadLine("detect_suspicious_activity", SuspiciousLine(counter, CurrentLine))
detect_suspicious_activity_FileNotFoundError == FileNotFound("detect_suspicious_activity")
detect_suspicious_activity_Exception == OtherException("detect_suspicious_activity")
detect_suspicious_activity_return ==
    EndOfFile("detect_suspicious_activity", SuspiciousFilter(counter, threshold))

----------------------------------------------------------------------------
(* Reporting *)

(* the three listings display_results prints, in order *)
Rendering(ip, mf, sus) ==
    << [section |-> "Requests per IP:", rows |-> ip],
       [section |-> "Most Frequently Accessed Endpoint:", rows |-> <<mf>>],
       IF sus /= <<>>
       THEN [section |-> "Suspicious Activity Detected:", rows |-> sus]
       ELSE [section |-> "No suspicious activity detected.", rows |-> <<>>] >>

display_results ==
    /\ pc = "display_results"
    /\ console' = Rendering(ip_requests, most_frequent, suspicious_activities)
    /\ pc' = NextComponent("display_results")
    /\ UNCHANGED <<log_file, threshold, handle, pos, counter, ip_requests, most_frequent,
                   suspicious_activities, failed, csvfile, run, first>>

ExportRows == CsvRows(ip_requests, most_frequent, suspicious_activities)

(* every write succeeds *)
save_results_to_csv ==
    /\ pc = "save_results_to_csv"
    /\ csvfile' = OpenForWrite(csvfile) \o writerows(ExportRows)
    /\ pc' = NextComponent("save_results_to_csv")
    /\ UNCHANGED <<log_file, threshold, handle, pos, counter, ip_requests, most_frequent,
                   suspicious_activities, console, failed, run, first>>

(* the export fails in open: the file is as it was *)
ExportFailsAtOpen == csvfile' = csvfile

(* the export fails in a write or in the closing flush, after open truncated *)
(* the file and k characters of the export reached it; the cut can fall      *)
(* anywhere, inside a row or between the "\r" and the "\n" of a line         *)
(* terminator. (The lines of the pool are ASCII, so a character of the       *)
(* export is one byte of the file.)                                          *)
ExportFailsAtWrite ==
    \E text \in {writerows(ExportRows)} :
        \E k \in 0..(Len(text) - 1) :
            csvfile' = OpenForWrite(csvfile) \o SubSeq(text, 1, k)

(* the export fails and a handler of save_results_to_csv reports it *)
ExportFails(outcome) ==
    /\ pc = "save_results_to_csv"
    /\ failed' = failed \cup {"save_results_to_csv"}
    /\ outcome
    /\ pc' = NextComponent("save_results_to_csv")
    /\ UNCHANGED <<log_file, threshold, handle, pos, counter, ip_requests, most_frequent,
                   suspicious_activities, console, run, first>>

(* except PermissionError: raised by open (EACCES), or by a write or the     *)
(* closing flush (EPERM) after open truncated the file                       *)
save_results_to_csv_PermissionError ==
    ExportFails(ExportFailsAtOpen \/ ExportFailsAtWrite)

(* except Exception: any other exception, raised by open, by a write or by   *)
(* the closing flush                                                         *)
save_results_to_csv_Exception ==
    ExportFails(ExportFailsAtOpen \/ ExportFailsAtWrite)

(* either handler, for an exception that open raised: the part of the two    *)
(* actions above in which the export file is not touched                     *)
save_results_to_csv_open_fails == ExportFails(ExportFailsAtOpen)

(* the script is invoked again on the same input file, threshold and output  *)
(* path: a new process, the export file as the first run left it             *)
rerun ==
    /\ pc = "done"
    /\ run = 1
    /\ run' = 2
    /\ first' = [ip_requests |-> ip_requests, most_frequent |-> most_frequent,
                 suspicious_activities |-> suspicious_activities, csvfile |-> csvfile]
    /\ pc' = "count_requests_per_ip"
    /\ ip_requests' = <<>>
    /\ most_frequent' = <<>>
    /\ suspicious_activities' = <<>>
    /\ console' = <<>>
    /\ failed' = {}
    /\ UNCHANGED <<log_file, threshold, handle, pos, counter, csvfile>>

----------------------------------------------------------------------------
(* Specifications *)

InitWith(files) ==
    /\ log_file \in files
    /\ threshold \in Thresholds
    /\ pc = "count_requests_per_ip"
    /\ handle = "closed"
    /\ pos = 0
    /\ counter = <<>>
    /\ ip_requests = <<>>
    /\ most_frequent = <<>>
    /\ suspicious_activities = <<>>
    /\ console = <<>>
    /\ failed = {}
    /\ csvfile \in ExportsBefore
    /\ run = 1
    /\ first = <<>>

Init == InitWith(Files(MaxLines))

InitFault == InitWith(Files(MaxFaultLines))

(* the steps of a run in which every file operation succeeds *)
NextClean ==
    \/ count_requests_per_ip_open
    \/ count_requests_per_ip_line
    \/ count_requests_per_ip_return
    \/ most_frequent_endpoint_open
    \/ most_frequent_endpoint_line
    \/ most_frequent_endpoint_return
    \/ detect_suspicious_activity_open
    \/ detect_suspicious_activity_line
    \/ detect_suspicious_activity_return
    \/ display_results
    \/ save_results_to_csv

(* the steps in which opening or reading the input fails *)
NextReadFault ==
    \/ count_requests_per_ip_FileNotFoundError
    \/ count_requests_per_ip_Exception
    \/ most_frequent_endpoint_FileNotFoundError
    \/ most_frequent_endpoint_Exception
    \/ detect_suspicious_activity_FileNotFoundError
    \/ detect_suspicious_activity_Exception

(* the steps in which a file operation fails *)
NextFault ==
    \/ NextReadFault
    \/ save_results_to_csv_PermissionError
    \/ save_results_to_csv_Exception

(* one invocation of the script, any file operation of which may fail *)
Next == NextClean \/ NextFault

Spec == InitFault /\ [][Next]_vars

(* one invocation in which the export file, once opened, is written to the  *)
(* end: of the export's failures only those of open are here. Every step is *)
(* a step of Next, and every state up to the export is a state of Next, on  *)
(* the longer input files                                                   *)
NextUncut == NextClean \/ NextReadFault \/ save_results_to_csv_open_fails

SpecUncut == Init /\ [][NextUncut]_vars

(* two invocations on an unchanged, readable input and a writable output *)
NextTwice == NextClean \/ rerun

SpecTwice == Init /\ [][NextTwice]_vars

----------------------------------------------------------------------------
(* Reading the export back: csv.reader with the default dialect, used to     *)
(* state what the export file holds                                          *)

(* the position after the line break that starts at e *)
AfterEol(text, e) ==
    IF text[e] = "\r" /\ e < Len(text) /\ text[e + 1] = "\n" THEN e + 2 ELSE e + 1

(* the position of the quote that closes a quoted field whose content starts *)
(* at p (a doubled quote is content); Len(text) + 1 if none does             *)
RECURSIVE ClosingQuote(_, _)
ClosingQuote(text, p) ==
    IF p > Len(text) THEN p
    ELSE IF text[p] /= "\"" THEN ClosingQuote(text, p + 1)
    ELSE IF p < Len(text) /\ text[p + 1] = "\"" THEN ClosingQuote(text, p + 2)
    ELSE p

RECURSIVE UndoubleQuotes(_)
UndoubleQuotes(f) ==
    IF f = <<>> THEN <<>>
    ELSE IF Head(f) = "\"" /\ Len(f) >= 2 /\ f[2] = "\""
         THEN <<"\"">> \o UndoubleQuotes(Tail(Tail(f)))
         ELSE <<Head(f)>> \o UndoubleQuotes(Tail(f))

(* reads the field that starts at i into the record row; a record ends at a  *)
(* line break outside quotes, and a line break at the start of a record is   *)
(* an empty record                                                           *)
RECURSIVE ReadCsv(_, _, _, _)
ReadCsv(text, i, row, rows) ==
    IF i > Len(text)
    THEN (IF row = <<>> THEN rows ELSE Append(rows, Append(row, <<>>)))
    ELSE IF row = <<>> /\ text[i] \in {"\r", "\n"}
    THEN ReadCsv(text, AfterEol(text, i), <<>>, Append(rows, <<>>))
    ELSE
    LET quoted == text[i] = "\""
        q == ClosingQuote(text, i + 1)
        from == IF quoted THEN q + 1 ELSE i
        stops == {e \in from..Len(text) : text[e] \in {",", "\r", "\n"}}
        e == IF stops = {} THEN Len(text) + 1 ELSE Min(stops)
        fld == (IF quoted THEN UndoubleQuotes(SubSeq(text, i + 1, q - 1)) ELSE <<>>)
               \o SubSeq(text, from, e - 1)
    IN  IF e > Len(text) THEN Append(rows, Append(row, fld))
        ELSE IF text[e] = "," THEN ReadCsv(text, e + 1, Append(row, fld), rows)
        ELSE ReadCsv(text, AfterEol(text, e), <<>>, Append(rows, Append(row, fld)))

(* list(csv.reader(text)) *)
ParseCsv(text) == ReadCsv(text, 1, <<>>, <<>>)

DigitValue(c) == (CHOOSE d \in 1..10 : Digits[d] = c) - 1

(* int(s) of a string of decimal digits; -1 for anything else *)
RECURSIVE ParseIntRec(_, _)
ParseIntRec(s, acc) ==
    IF s = <<>> THEN acc
    ELSE IF \E d \in 1..10 : Digits[d] = Head(s)
         THEN ParseIntRec(Tail(s), 10 * acc + DigitValue(Head(s)))
         ELSE 0 - 1
ParseInt(s) == IF s = <<>> THEN 0 - 1 ELSE ParseIntRec(s, 0)

(* a data row read back as a (key, count) pair; <<>> if it has not two fields *)
DecodeRow(row) == IF Len(row) = 2 THEN <<row[1], ParseInt(row[2])>> ELSE <<>>
DecodeRows(rows) == [i \in 1..Len(rows) |-> DecodeRow(rows[i])]

(* the rows split into sections at the blank rows *)
RECURSIVE SplitAtBlank(_, _, _)
SplitAtBlank(rows, cur, acc) ==
    IF rows = <<>> THEN Append(acc, cur)
    ELSE IF Head(rows) = <<>> THEN SplitAtBlank(Tail(rows), <<>>, Append(acc, cur))
    ELSE SplitAtBlank(Tail(rows), Append(cur, Head(rows)), acc)
Sections(rows) == SplitAtBlank(rows, <<>>, <<>>)

(* a section without its header row and its title row *)
DataRows(section) == SubSeq(section, 3, Len(section))

----------------------------------------------------------------------------
(* What the claims speak of, stated on the input itself *)

Order == <<"count_requests_per_ip", "most_frequent_endpoint", "detect_suspicious_activity",
           "display_results", "save_results_to_csv", "done">>
Rank(p) == CHOOSE i \in 1..Len(Order) : Order[i] = p

(* the function p has returned to __main__ *)
Returned(p) == Rank(pc) > Rank(p)
(* ... and none of its file-level handlers ran *)
Succeeded(p) == Returned(p) /\ p \notin failed

LineNos == 1..Len(log_file)
Line(i) == log_file[i]

HasToken(l) == \E i \in 1..Len(l) : l[i] \notin Whitespace
FirstToken(l) ==
    LET a == Min({i \in 1..Len(l) : l[i] \notin Whitespace})
        b == Min({j \in a..Len(l) : l[j] \in Whitespace} \cup {Len(l) + 1})
    IN  SubSeq(l, a, b - 1)

TokenLines == {i \in LineNos : HasToken(Line(i))}
Identifiers == {FirstToken(Line(i)) : i \in TokenLines}
RequestCount(id) == Cardinality({i \in TokenLines : FirstToken(Line(i)) = id})
FirstRequest(id) == Min({i \in TokenLines : FirstToken(Line(i)) = id})

(* the request-line match of every line of the input *)
Matches == [i \in LineNos |-> endpoint_match(Line(i))]
MatchLinesOf(ms) == {i \in LineNos : ms[i].matched}
EndpointsOf(ms) == {ms[i].group1 : i \in MatchLinesOf(ms)}
AccessCount(ms, e) == Cardinality({i \in MatchLinesOf(ms) : ms[i].group1 = e})
FirstAccess(ms, e) == Min({i \in MatchLinesOf(ms) : ms[i].group1 = e})
MatchLines == MatchLinesOf(Matches)

FailedLines == {i \in TokenLines :
                   Contains(Line(i), Str401) \/ Contains(Line(i), StrInvalidCredentials)}
FailedCount(id) == Cardinality({i \in FailedLines : FirstToken(Line(i)) = id})

RECURSIVE SumCounts(_)
SumCounts(ps) == IF ps = <<>> THEN 0 ELSE Head(ps)[2] + SumCounts(Tail(ps))

Pairs(ps) == {ps[i] : i \in 1..Len(ps)}
NoRepeatedKey(ps) == \A i, j \in 1..Len(ps) : ps[i][1] = ps[j][1] => i = j

----------------------------------------------------------------------------
(* Claims *)

(* C1: once count_requests_per_ip has returned from a readable file, its     *)
(* list holds exactly one pair per distinct first token of the input, each   *)
(* with the number of lines that start with that token; the counts add up    *)
(* to the number of lines that have a token, so a line without a token was   *)
(* skipped and the pass went on.                                             *)
C1_RequestCounts ==
    Succeeded("count_requests_per_ip") =>
        /\ NoRepeatedKey(ip_requests)
        /\ {p[1] : p \in Pairs(ip_requests)} = Identifiers
        /\ \A p \in Pairs(ip_requests) : p[2] = RequestCount(p[1])
        /\ SumCounts(ip_requests) = Cardinality(TokenLines)

(* a line without a token lies before a line with one, and some identifier   *)
(* was counted twice                                                         *)
C1_Witness ==
    /\ Succeeded("count_requests_per_ip")
    /\ \E i, j \in LineNos : i < j /\ ~HasToken(Line(i)) /\ HasToken(Line(j))
    /\ \E p \in Pairs(ip_requests) : p[2] >= 2

(* C2: the list of count_requests_per_ip is in non-increasing order of       *)
(* count, and of two identifiers with equal counts the one that occurs       *)
(* first in the input comes first.                                           *)
C2_Ranking ==
    Succeeded("count_requests_per_ip") =>
        \A i, j \in 1..Len(ip_requests) :
            i < j =>
                /\ ip_requests[i][2] >= ip_requests[j][2]
                /\ ip_requests[i][2] = ip_requests[j][2] =>
                       FirstRequest(ip_requests[i][1]) < FirstRequest(ip_requests[j][1])

(* the identifier ranked first was first seen after the one ranked second *)
C2_Witness ==
    /\ Succeeded("count_requests_per_ip")
    /\ Len(ip_requests) >= 2
    /\ ip_requests[1][2] > ip_requests[2][2]
    /\ FirstRequest(ip_requests[1][1]) > FirstRequest(ip_requests[2][1])

(* two identifiers tie *)
C2_WitnessTie ==
    /\ Succeeded("count_requests_per_ip")
    /\ Len(ip_requests) >= 2
    /\ ip_requests[1][2] = ip_requests[2][2]

(* C3: most_frequent_endpoint returns an endpoint captured from the input    *)
(* with its number of matching lines, no endpoint has more, and any other    *)
(* endpoint with as many was first met later; with no matching line it       *)
(* returns ("N/A", 0).                                                       *)
C3_TopEndpoint ==
    Succeeded("most_frequent_endpoint") =>
        \A ms \in {Matches} :
            IF MatchLinesOf(ms) = {} THEN most_frequent = <<StrNA, 0>>
            ELSE /\ most_frequent[1] \in EndpointsOf(ms)
                 /\ most_frequent[2] = AccessCount(ms, most_frequent[1])
                 /\ \A e \in EndpointsOf(ms) :
                        /\ AccessCount(ms, e) <= most_frequent[2]
                        /\ (AccessCount(ms, e) = most_frequent[2] /\ e /= most_frequent[1]) =>
                               FirstAccess(ms, most_frequent[1]) < FirstAccess(ms, e)

(* two endpoints tie for the maximum and a line of the input matches nothing *)
C3_Witness ==
    /\ Succeeded("most_frequent_endpoint")
    /\ \E ms \in {Matches} :
           /\ \E e \in EndpointsOf(ms) :
                  e /= most_frequent[1] /\ AccessCount(ms, e) = most_frequent[2]
           /\ MatchLinesOf(ms) /= LineNos

(* no line matches: the sentinel *)
C3_WitnessNone ==
    /\ Succeeded("most_frequent_endpoint")
    /\ log_file /= <<>>
    /\ most_frequent = <<StrNA, 0>>

(* C4 as stated: for every identifier and every n, (id, n) is returned if    *)
(* and only if n is the identifier's number of failed-login lines and n is   *)
(* greater than the threshold.                                               *)
C4_AsStated ==
    Succeeded("detect_suspicious_activity") =>
        \A id \in Identifiers : \A n \in 0..Len(log_file) :
            (<<id, n>> \in Pairs(suspicious_activities))
                <=> (n = FailedCount(id) /\ n > threshold)

(* C4 amended: the same, for identifiers that have at least one failed-login *)
(* line; an identifier with none is never returned, whatever the threshold.  *)
C4_Suspicious ==
    Succeeded("detect_suspicious_activity") =>
        /\ NoRepeatedKey(suspicious_activities)
        /\ \A p \in Pairs(suspicious_activities) : p[1] \in Identifiers
        /\ \A id \in Identifiers : \A n \in 0..Len(log_file) :
               (<<id, n>> \in Pairs(suspicious_activities))
                   <=> (n >= 1 /\ n = FailedCount(id) /\ n > threshold)

(* one identifier is over the threshold and returned, another has exactly    *)
(* threshold failed lines and is not                                         *)
C4_Witness ==
    /\ Succeeded("detect_suspicious_activity")
    /\ suspicious_activities /= <<>>
    /\ \E id \in Identifiers :
           /\ FailedCount(id) = threshold
           /\ FailedCount(id) >= 1
           /\ \A p \in Pairs(suspicious_activities) : p[1] /= id

(* C5: a pass whose file-level handler ran (missing file, or any other       *)
(* error at any point of the pass) has returned exactly its default: [] for  *)
(* the request counter and the suspicious detector, ("N/A", 0) for the       *)
(* endpoint extractor; control is back in __main__.                          *)
C5_Defaults ==
    /\ "count_requests_per_ip" \in failed =>
           Returned("count_requests_per_ip") /\ ip_requests = <<>>
    /\ "most_frequent_endpoint" \in failed =>
           Returned("most_frequent_endpoint") /\ most_frequent = <<StrNA, 0>>
    /\ "detect_suspicious_activity" \in failed =>
           Returned("detect_suspicious_activity") /\ suspicious_activities = <<>>

(* all three passes failed on an input from which each would have tallied    *)
(* something                                                                 *)
C5_Witness ==
    /\ Passes \subseteq failed
    /\ TokenLines /= {}
    /\ MatchLines /= {}
    /\ \E id \in Identifiers : FailedCount(id) > threshold
    /\ ip_requests = <<>>
    /\ most_frequent = <<StrNA, 0>>
    /\ suspicious_activities = <<>>

(* C6: whatever fails, control moves only from each function to the next in  *)
(* the order request counter, endpoint extractor, suspicious detector,       *)
(* console rendering, export; an export failure is handled after the console *)
(* was rendered and ends the run normally; and every run reaches its end.    *)
C6_StepInOrder == pc' /= pc => Rank(pc') = Rank(pc) + 1
C6_ExportAfterConsole ==
    /\ Returned("display_results") =>
           console = Rendering(ip_requests, most_frequent, suspicious_activities)
    /\ "save_results_to_csv" \in failed => pc = "done" /\ console /= <<>>
(* a step is always possible before the end, and every step advances a      *)
(* bounded measure: a run cannot stop early and cannot go on for ever        *)
C6_Progress == (Rank(pc) * (Len(log_file) + 2)) + (IF handle = "open" THEN pos + 1 ELSE 0)
C6_RunsInOrder ==
    /\ [][C6_StepInOrder /\ C6_Progress' > C6_Progress]_vars
    /\ [](C6_ExportAfterConsole /\ (pc = "done" \/ ENABLED Next))

(* every pass and the export failed, the export cut short inside a row; the  *)
(* console was rendered, the run ended                                       *)
C6_Witness ==
    /\ pc = "done"
    /\ failed = Passes \cup {"save_results_to_csv"}
    /\ console /= <<>>
    /\ csvfile /= <<>>
    /\ csvfile[Len(csvfile)] \notin {"\r", "\n"}

ExportedRows == ParseCsv(csvfile)
ExportCompleted == pc = "done" /\ "save_results_to_csv" \notin failed

(* the rows i+1 .. i+Len(ps) of the export are the pairs ps, in order *)
RowsAre(rows, i, ps) ==
    \A k \in 1..Len(ps) :
        /\ Len(rows[i + k]) = 2
        /\ rows[i + k][1] = ps[k][1]
        /\ ParseInt(rows[i + k][2]) = ps[k][2]

(* C7: after an export without write failure the file holds, in this order:  *)
(* the header "Requests per IP", its title row, the identifier rows, a blank *)
(* row, the header "Most Accessed Endpoint", its title row, one endpoint     *)
(* row, a blank row, the header "Suspicious Activity", its title row, the    *)
(* suspicious rows, and nothing after them.                                  *)
C7_Layout ==
    ExportCompleted =>
        LET rows == ExportedRows
            n == Len(ip_requests)
            m == Len(suspicious_activities)
        IN  /\ Len(rows) = n + m + 9
            /\ rows[1] = <<StrRequestsPerIP>>
            /\ rows[2] = <<StrIPAddress, StrRequestCount>>
            /\ RowsAre(rows, 2, ip_requests)
            /\ rows[n + 3] = <<>>
            /\ rows[n + 4] = <<StrMostAccessedEndpoint>>
            /\ rows[n + 5] = <<StrEndpoint, StrAccessCount>>
            /\ RowsAre(rows, n + 5, <<most_frequent>>)
            /\ rows[n + 7] = <<>>
            /\ rows[n + 8] = <<StrSuspiciousActivity>>
            /\ rows[n + 9] = <<StrIPAddress, StrFailedLoginCount>>
            /\ RowsAre(rows, n + 9, suspicious_activities)

(* an export with identifier rows and suspicious rows *)
C7_Witness ==
    /\ ExportCompleted
    /\ Len(ip_requests) >= 2
    /\ suspicious_activities /= <<>>

(* the export of the all-default result of a missing input *)
C7_WitnessDefault ==
    /\ ExportCompleted
    /\ Passes \subseteq failed
    /\ log_file /= <<>>

(* C8: the export read back, split at its blank rows, has three sections,    *)
(* and their data rows are the identifier pairs, the endpoint pair and the   *)
(* suspicious pairs that were exported, in the same order.                   *)
C8_RoundTrip ==
    ExportCompleted =>
        LET sections == Sections(ExportedRows)
        IN  /\ Len(sections) = 3
            /\ DecodeRows(DataRows(sections[1])) = ip_requests
            /\ DecodeRows(DataRows(sections[2])) = <<most_frequent>>
            /\ DecodeRows(DataRows(sections[3])) = suspicious_activities

(* the exported result holds a key with a comma and a key with a quote *)
C8_Witness ==
    /\ ExportCompleted
    /\ \E i \in 1..Len(most_frequent[1]) : most_frequent[1][i] = ","
    /\ \E p \in Pairs(ip_requests) : \E i \in 1..Len(p[1]) : p[1][i] = "\""
    /\ suspicious_activities /= <<>>

(* C9: the second of two runs on the same input and threshold ends with the  *)
(* same three results and the same export file as the first.                 *)
C9_Idempotent ==
    (run = 2 /\ pc = "done") =>
        /\ ip_requests = first.ip_requests
        /\ most_frequent = first.most_frequent
        /\ suspicious_activities = first.suspicious_activities
        /\ csvfile = first.csvfile

(* a second run has ended on an input that gave all three results content *)
C9_Witness ==
    /\ run = 2
    /\ pc = "done"
    /\ Len(ip_requests) >= 2
    /\ most_frequent[2] >= 1
    /\ suspicious_activities /= <<>>
    /\ csvfile /= <<>>

(* C10: when the request counter and the suspicious detector both succeeded, *)
(* every suspicious identifier is in the request list with a request count   *)
(* at least its failed-login count; when the request counter succeeded, the  *)
(* top endpoint's count is at most the sum of the request counts.            *)
C10_Consistent ==
    /\ (Succeeded("count_requests_per_ip") /\ Succeeded("detect_suspicious_activity")) =>
           \A s \in Pairs(suspicious_activities) :
               \E r \in Pairs(ip_requests) : r[1] = s[1] /\ s[2] <= r[2]
    /\ (Succeeded("count_requests_per_ip") /\ Returned("most_frequent_endpoint")) =>
           most_frequent[2] <= SumCounts(ip_requests)

(* a suspicious identifier with fewer failed logins than requests, and a top *)
(* endpoint counted at least once                                            *)
C10_Witness ==
    /\ Succeeded("count_requests_per_ip")
    /\ Succeeded("most_frequent_endpoint")
    /\ Succeeded("detect_suspicious_activity")
    /\ most_frequent[2] >= 1
    /\ \E s \in Pairs(suspicious_activities) :
           \E r \in Pairs(ip_requests) : r[1] = s[1] /\ s[2] < r[2]

====
